---- MODULE Spec2Model ----
(***************************************************************************)
(* Model of cloudwatch_log_exporter (src/exporter.py): get_logs lists the  *)
(* log groups page by page, calls maybe_export_log_group for each group    *)
(* (create_export_task, then a bounded poll of the task's status code),    *)
(* joins the per-group result strings into results_report and publishes    *)
(* it with publish_to_sns.                                                 *)
(*                                                                         *)
(* Strings are sequences of tokens: a newline, the text of one export      *)
(* result ("<res> export status: <code>") or the progress message of one   *)
(* page.  Optional[str] is a record with the flag `some`.                  *)
(***************************************************************************)
EXTENDS Integers, Sequences, FiniteSets, TLC

\* ---------------------------------------------------------------- bounds
MaxPages == 2
MaxRetries == 2
MaxHours == 2

\* no status check is modelled beyond this number per task (the loop of lines
\* 54-59 makes at most retries + 2)
MaxChecks == MaxRetries + 3

\* ------------------------------------------------------------- constants
\* time.sleep(interval): the default of maybe_export_log_group's interval
DefaultInterval == 10

\* the defaults of get_logs' logs_from_hours_ago and cloudwatch_staleness_slo
DefaultHoursAgo == 36
DefaultStalenessSlo == 12

\* time is counted in milliseconds: timedelta(hours=1)
HourMs == 60 * 60 * 1000

\* line 71: the value datetime.utcnow() returns in the run
Clock == 50 * HourMs + 123

\* lines 73, 76: current_time - timedelta(hours=h)
HoursBefore(t, h) == t - h * HourMs

\* lines 74, 77: strftime(date_format) keeps the time down to the second
HumanTime(t) == [seconds |-> t \div 1000]

\* lines 75, 78: int(timestamp() * 1000) keeps the time down to the millisecond
AwsTime(t) == t

\* the log group names the service may hold
Groups == {"A", "B"}

\* status codes describe_export_tasks can report for a task
StatusCodes == {"PENDING", "RUNNING", "COMPLETED", "FAILED", "CANCELLED"}

\* ------------------------------------------------------------ the service
\* the sequences over S without repetition (log group names are unique
\* within the service)
InjSeqs(S) ==
    UNION {{s \in [1..k -> S] : \A i, j \in 1..k : i # j => s[i] # s[j]} :
              k \in 0..Cardinality(S)}

RECURSIVE Flatten(_)
Flatten(ps) == IF ps = <<>> THEN <<>> ELSE Head(ps) \o Flatten(Tail(ps))

Range(s) == {s[i] : i \in DOMAIN s}

\* what the service has to list: 1..MaxPages pages of distinct group names
Listings ==
    {l \in UNION {[1..k -> InjSeqs(Groups)] : k \in 1..MaxPages} :
        Len(Flatten(l)) = Cardinality(Range(Flatten(l)))}

\* the codes the q-th describe_export_tasks query of a task can report when
\* the task's status sequence holds its first COMPLETED at position c
\* (c = 0: the sequence never holds COMPLETED)
StatusAt(q, c) ==
    IF c = 0 \/ q < c THEN StatusCodes \ {"COMPLETED"}
    ELSE IF q = c THEN {"COMPLETED"}
    ELSE StatusCodes

NoToken == 0

\* the response of describe_log_groups for page p of listing l: the key
\* NextToken is present only when a further page exists
ListResponse(l, p) ==
    IF p < Len(l)
    THEN [logGroups |-> l[p], NextToken |-> p]
    ELSE [logGroups |-> l[p]]

\* the continuation token a response of describe_log_groups carries
ResponseToken(lg) == IF "NextToken" \in DOMAIN lg THEN lg.NextToken ELSE NoToken

\* -------------------------------------------------------------- strings
NL == [kind |-> "nl", taskId |-> 0, code |-> "", names |-> <<>>]
ResultText(res, code) == [kind |-> "result", taskId |-> res, code |-> code, names |-> <<>>]
ProgressText(names) == [kind |-> "progress", taskId |-> 0, code |-> "", names |-> names]

None == [some |-> FALSE, val |-> <<>>]
Some(s) == [some |-> TRUE, val |-> s]

\* sep.join(items) for a list of str
RECURSIVE StrJoin(_, _)
StrJoin(sep, items) ==
    IF items = <<>> THEN <<>>
    ELSE IF Len(items) = 1 THEN items[1]
    ELSE items[1] \o sep \o StrJoin(sep, Tail(items))

\* "\n".join(results) raises TypeError when an item is None
JoinRaises(results) == \E i \in DOMAIN results : ~results[i].some

Vals(results) == [i \in DOMAIN results |-> results[i].val]

\* ---------------------------------------------------------- pure helpers
\* mutant: the token is looked up under a key the response does not carry
get_group_name_and_token_WrongKey(lg) ==
    <<lg.logGroups, IF "nextToken" \in DOMAIN lg THEN lg.nextToken ELSE NoToken>>

get_group_name_and_token(lg) ==
    <<lg.logGroups, IF "NextToken" \in DOMAIN lg THEN lg.NextToken ELSE NoToken>>

\* mutant: the retry budget is never found spent
Exhausted_Never(attempts, retries) == FALSE

\* mutant: the comparison of line 55 turned round
Exhausted_Inverted(attempts, retries) == attempts < retries

\* line 55: if attempts > retries: return None
Exhausted(attempts, retries) == attempts > retries

\* line 61: f"{res} export status: {code}\n"
ResultLine(res, code) == <<ResultText(res, code), NL>>

\* mutant: the page loop is never entered
LoopContinues_Never(tok) == FALSE

\* line 106: while last_token
LoopContinues(tok) == tok # NoToken

\* mutant: the counter is not at 0 when tasks were polled before
StartAttempts_Shared(n) == IF n = 0 THEN 0 ELSE 1

\* line 53: attempts = 0, however many tasks (n) were polled before
StartAttempts(n) == 0

\* mutant: the task is created and its poll is not waited for
AfterSubmit_NoWait == "export"

\* lines 44-54: create_export_task is followed by the poll loop of its task
AfterSubmit == "poll"

\* mutant: the exception is caught and the run goes on to the page loop
RaiseTo_Swallowed(err) == "loop"

\* an exception raised inside get_logs is not caught: control leaves the run
RaiseTo(err) == "aborted"

VARIABLES
    current_time,               \* line 71
    logs_from_hours_ago,        \* argument of get_logs
    cloudwatch_staleness_slo,   \* argument of get_logs
    listing,        \* the service: the pages it lists
    retries,        \* maybe_export_log_group's retries parameter
    pc,             \* position of get_logs
    error,          \* the exception that ended the run, "none" otherwise
    initial_log_group_group_names,
    log_group_group_name,
    last_token,
    idx,            \* position of the list comprehension in the iterated list
    results,        \* the list the comprehension has built so far
    results_report,
    res,            \* taskId returned by create_export_task
    attempts,
    ret,            \* return value of the current maybe_export_log_group call
    tasks,          \* the service: export tasks created, by taskId
    completesAt,    \* the service: position of the first COMPLETED in the status
                    \* sequence of the current task, 0 when it has none
    listCalls,      \* history: describe_log_groups calls, token passed/returned
    checks,         \* history: status checks of the loop of the current call
    sleeps,         \* history: time.sleep calls of the current call
    slept,          \* history: seconds slept in the current call
    loopCode,       \* history: the status code at which the loop of the call ended
    calls,          \* history: one record per returned maybe_export call
    polledOnce,     \* history: every returned call ended its loop at its first check
    published       \* the notification service: the messages published

vars == <<current_time, logs_from_hours_ago, cloudwatch_staleness_slo, listing, retries, pc, error, initial_log_group_group_names,
          log_group_group_name, last_token, idx, results, results_report,
          res, attempts, ret, tasks, completesAt, listCalls, checks, sleeps, slept,
          loopCode, calls, polledOnce, published>>

progVars == <<initial_log_group_group_names, log_group_group_name, last_token,
              idx, results, results_report>>
callVars == <<res, attempts, ret, completesAt, checks, sleeps, slept, loopCode>>

\* lines 73-78
log_start_time_hr == HumanTime(HoursBefore(current_time, logs_from_hours_ago))
log_start_time_ts == AwsTime(HoursBefore(current_time, logs_from_hours_ago))
log_end_time_hr == HumanTime(HoursBefore(current_time, cloudwatch_staleness_slo))
log_end_time_ts == AwsTime(HoursBefore(current_time, cloudwatch_staleness_slo))

\* mutant: the prefix is built from the end of the window
DestinationPrefix_EndTime(lgn, prefix_time) == [lgn |-> lgn, time |-> log_end_time_hr]

\* line 50: f"cloudwatchlogs_{lgn}/{prefix_time}"
DestinationPrefix(lgn, prefix_time) == [lgn |-> lgn, time |-> prefix_time]

\* lines 44-51: the request of create_export_task
ExportRequest(lgn, start_time, end_time, prefix_time) ==
    [logGroupName |-> lgn, fromTime |-> start_time, to |-> end_time,
     destinationPrefix |-> DestinationPrefix(lgn, prefix_time)]

\* the state get_logs starts from, whatever its arguments
InitRun ==
    /\ retries \in 0..MaxRetries
    /\ pc = "start"
    /\ error = "none"
    /\ initial_log_group_group_names = <<>>
    /\ log_group_group_name = <<>>
    /\ last_token = NoToken
    /\ idx = 1
    /\ results = <<>>
    /\ results_report = <<>>
    /\ res = 0
    /\ attempts = 0
    /\ ret = None
    /\ tasks = <<>>
    /\ completesAt = 0
    /\ listCalls = <<>>
    /\ checks = 0
    /\ sleeps = 0
    /\ slept = 0
    /\ loopCode = ""
    /\ calls = <<>>
    /\ polledOnce = TRUE
    /\ published = <<>>

\* get_logs is called as at line 129, with its default arguments
Init ==
    /\ current_time = Clock
    /\ logs_from_hours_ago = DefaultHoursAgo
    /\ cloudwatch_staleness_slo = DefaultStalenessSlo
    /\ listing \in Listings
    /\ InitRun

\* get_logs is called with any arguments, for listings whose first page
\* holds at most one group
InitWindow ==
    /\ current_time = Clock
    /\ logs_from_hours_ago \in 0..MaxHours
    /\ cloudwatch_staleness_slo \in 0..MaxHours
    /\ listing \in {l \in Listings : Len(l[1]) <= 1}
    /\ InitRun

\* an exception propagates out of get_logs
Raise(err) ==
    /\ pc' = RaiseTo(err)
    /\ error' = err

\* lines 88-91: the first listing call
DescribeFirst ==
    /\ pc = "start"
    /\ LET lg == ListResponse(listing, 1)
           r == get_group_name_and_token(lg) IN
        /\ initial_log_group_group_names' = r[1]
        /\ last_token' = r[2]
        /\ listCalls' = Append(listCalls, [passed |-> NoToken,
                                           returned |-> ResponseToken(lg)])
    /\ idx' = 1
    /\ results' = <<>>
    /\ pc' = "export"
    /\ UNCHANGED <<current_time, logs_from_hours_ago, cloudwatch_staleness_slo,
                   listing, retries, error, log_group_group_name, results_report,
                   tasks, calls, polledOnce, published>>
    /\ UNCHANGED callVars

\* lines 88, 109: describe_log_groups fails
DescribeFails ==
    /\ \/ pc = "start"
       \/ pc = "loop" /\ LoopContinues(last_token)
    /\ Raise("ServiceError")
    /\ UNCHANGED <<current_time, logs_from_hours_ago, cloudwatch_staleness_slo,
                   listing, retries, tasks, listCalls, calls, polledOnce, published>>
    /\ UNCHANGED progVars
    /\ UNCHANGED callVars

\* lines 44-53: create_export_task for the next name of the iterated list
CreateExportTask ==
    /\ pc = "export"
    /\ idx <= Len(initial_log_group_group_names)
    /\ tasks' = Append(tasks, ExportRequest(initial_log_group_group_names[idx],
                                            log_start_time_ts, log_end_time_ts,
                                            log_start_time_hr))
    /\ res' = Len(tasks) + 1
    /\ completesAt' \in 0..(retries + 2)
    /\ attempts' = StartAttempts(Len(tasks))
    /\ checks' = 0
    /\ sleeps' = 0
    /\ slept' = 0
    /\ loopCode' = ""
    /\ ret' = None
    /\ pc' = AfterSubmit
    /\ UNCHANGED <<current_time, logs_from_hours_ago, cloudwatch_staleness_slo,
                   listing, retries, error, listCalls, calls, polledOnce, published>>
    /\ UNCHANGED progVars

\* line 44: create_export_task fails
CreateFails ==
    /\ pc = "export"
    /\ idx <= Len(initial_log_group_group_names)
    /\ Raise("SubmissionError")
    /\ UNCHANGED <<current_time, logs_from_hours_ago, cloudwatch_staleness_slo,
                   listing, retries, tasks, listCalls, calls, polledOnce, published>>
    /\ UNCHANGED progVars
    /\ UNCHANGED callVars

\* lines 54-59: one iteration of the poll loop
PollCheck ==
    /\ pc = "poll"
    /\ checks < MaxChecks
    /\ \E code \in StatusAt(checks + 1, completesAt) :
        /\ checks' = checks + 1
        /\ IF code = "COMPLETED"
           THEN /\ pc' = "final"
                /\ loopCode' = code
                /\ UNCHANGED <<attempts, ret, sleeps, slept>>
           ELSE IF Exhausted(attempts, retries)
           THEN /\ ret' = None
                /\ pc' = "return"
                /\ loopCode' = code
                /\ UNCHANGED <<attempts, sleeps, slept>>
           ELSE /\ attempts' = attempts + 1
                /\ sleeps' = sleeps + 1
                /\ slept' = slept + DefaultInterval
                /\ pc' = "poll"
                /\ UNCHANGED <<ret, loopCode>>
    /\ UNCHANGED <<current_time, logs_from_hours_ago, cloudwatch_staleness_slo,
                   listing, retries, error, res, tasks, completesAt, listCalls,
                   calls, polledOnce, published>>
    /\ UNCHANGED progVars

\* line 61: the status is asked once more for the returned text
FinalStatus ==
    /\ pc = "final"
    /\ \E code \in StatusAt(checks + 1, completesAt) : ret' = Some(ResultLine(res, code))
    /\ pc' = "return"
    /\ UNCHANGED <<current_time, logs_from_hours_ago, cloudwatch_staleness_slo,
                   listing, retries, error, res, attempts, tasks, completesAt,
                   listCalls, checks, sleeps, slept, loopCode, calls, polledOnce, published>>
    /\ UNCHANGED progVars

\* lines 96-102, 117-123: the call returns (its locals are gone) and the
\* comprehension takes the return value
Return ==
    /\ pc = "return"
    /\ results' = Append(results, ret)
    /\ calls' = Append(calls, [lgn |-> tasks[res].logGroupName, taskId |-> res,
                               outcome |-> ret, loopCode |-> loopCode])
    /\ polledOnce' = (polledOnce /\ checks = 1)
    /\ idx' = idx + 1
    /\ res' = 0
    /\ completesAt' = 0
    /\ attempts' = 0
    /\ ret' = None
    /\ checks' = 0
    /\ sleeps' = 0
    /\ slept' = 0
    /\ loopCode' = ""
    /\ pc' = "export"
    /\ UNCHANGED <<current_time, logs_from_hours_ago, cloudwatch_staleness_slo,
                   listing, retries, error, initial_log_group_group_names,
                   log_group_group_name, last_token, results_report, tasks,
                   listCalls, published>>

\* lines 96, 117: "\n".join of the comprehension's list
Join ==
    /\ pc = "export"
    /\ idx > Len(initial_log_group_group_names)
    /\ IF JoinRaises(results)
       THEN /\ Raise("TypeError")
            /\ UNCHANGED results_report
       ELSE /\ results_report' = results_report \o StrJoin(<<NL>>, Vals(results))
            /\ pc' = "loop"
            /\ UNCHANGED error
    /\ UNCHANGED <<current_time, logs_from_hours_ago, cloudwatch_staleness_slo,
                   listing, retries, initial_log_group_group_names,
                   log_group_group_name, last_token, idx, results, tasks,
                   listCalls, calls, polledOnce, published>>
    /\ UNCHANGED callVars

\* lines 106-116: a token is left, the next page is listed
DescribeNext ==
    /\ pc = "loop"
    /\ LoopContinues(last_token)
    /\ LET lg == ListResponse(listing, last_token + 1)
           r == get_group_name_and_token(lg) IN
        /\ log_group_group_name' = r[1]
        /\ last_token' = r[2]
        /\ listCalls' = Append(listCalls, [passed |-> last_token,
                                           returned |-> ResponseToken(lg)])
        /\ results_report' = results_report \o <<NL, ProgressText(r[1])>>
    /\ idx' = 1
    /\ results' = <<>>
    /\ pc' = "export"
    /\ UNCHANGED <<current_time, logs_from_hours_ago, cloudwatch_staleness_slo,
                   listing, retries, error, initial_log_group_group_names,
                   tasks, calls, polledOnce, published>>
    /\ UNCHANGED callVars

\* lines 106, 125 and 20-25: no token is left, the report is published
Publish ==
    /\ pc = "loop"
    /\ ~LoopContinues(last_token)
    /\ published' = Append(published, results_report)
    /\ pc' = "done"
    /\ UNCHANGED <<current_time, logs_from_hours_ago, cloudwatch_staleness_slo,
                   listing, retries, error, tasks, listCalls, calls, polledOnce>>
    /\ UNCHANGED progVars
    /\ UNCHANGED callVars

\* line 21: c.publish fails
PublishFails ==
    /\ pc = "loop"
    /\ ~LoopContinues(last_token)
    /\ Raise("DeliveryError")
    /\ UNCHANGED <<current_time, logs_from_hours_ago, cloudwatch_staleness_slo,
                   listing, retries, tasks, listCalls, calls, polledOnce, published>>
    /\ UNCHANGED progVars
    /\ UNCHANGED callVars

Next ==
    \/ DescribeFirst
    \/ DescribeFails
    \/ CreateExportTask
    \/ CreateFails
    \/ PollCheck
    \/ FinalStatus
    \/ Return
    \/ Join
    \/ DescribeNext
    \/ Publish
    \/ PublishFails

Spec == Init /\ [][Next]_vars

SpecWindow == InitWindow /\ [][Next]_vars

\* get_logs up to the end of its first comprehension, for one-page listings
InitPoll ==
    /\ Init
    /\ Len(listing) = 1

NextPoll ==
    \/ DescribeFirst
    \/ CreateExportTask
    \/ CreateFails
    \/ PollCheck
    \/ FinalStatus
    \/ Return

\* the thread runs on: time.sleep and describe_export_tasks return
SpecPoll ==
    /\ InitPoll
    /\ [][NextPoll]_vars
    /\ WF_vars(PollCheck)
    /\ WF_vars(FinalStatus)

\* ------------------------------------------------------- report helpers
IsEntry(t) == t.kind \notin {"nl", "progress"}

\* the log groups of the outcome entries of a report body, in body order
EntryGroups(body) ==
    LET es == SelectSeq(body, IsEntry) IN
    [i \in DOMAIN es |-> tasks[es[i].taskId].logGroupName]

\* the number of outcome entries a body holds for the task t
EntryCount(body, t) ==
    Cardinality({i \in DOMAIN body : IsEntry(body[i]) /\ body[i].taskId = t})

\* str.splitlines: the lines of a body; a final newline opens no further line
RECURSIVE SplitLines(_)
SplitLines(body) ==
    IF body = <<>> THEN <<>>
    ELSE LET nls == {i \in DOMAIN body : body[i] = NL} IN
         IF nls = {} THEN <<body>>
         ELSE LET n == CHOOSE i \in nls : \A j \in nls : i <= j IN
              <<SubSeq(body, 1, n - 1)>> \o SplitLines(SubSeq(body, n + 1, Len(body)))

\* entries joined by single newlines: no empty line, no leading newline, no
\* doubled newline (also at the end), every entry at the start of a line
WellJoined(body) ==
    /\ body # <<>> => body[1] # NL
    /\ \A i \in 1..(Len(body) - 1) : ~(body[i] = NL /\ body[i + 1] = NL)
    /\ \A i \in 2..Len(body) : IsEntry(body[i]) => body[i - 1] = NL

Exhaustions == {i \in DOMAIN calls : ~calls[i].outcome.some}

\* ---------------------------------------------------------------- claims

\* C1: when get_logs runs to completion the published report holds exactly
\* one outcome entry for every log group of every page, in discovery order.
C1_EveryGroupOnceInOrder ==
    \A m \in DOMAIN published : EntryGroups(published[m]) = Flatten(listing)

\* C2: an exhausted poll does not fail the run: no exception ends the run
\* because of the absent outcome, and a run that publishes reports exactly
\* one explicit entry for the exhausted group's task.
C2_ExhaustedPollIsReported ==
    \A i \in Exhaustions :
        /\ error # "TypeError"
        /\ \A m \in DOMAIN published : EntryCount(published[m], calls[i].taskId) = 1

\* C3: a failure of create_export_task for one group does not abort the run.
C3_SubmissionFailureNotFatal ==
    ~(pc = "aborted" /\ error = "SubmissionError")

\* C4: a status sequence without COMPLETED ends the poll with the absent
\* outcome after exactly retries+1 status checks and retries sleeps, so after
\* at most retries x interval seconds of sleep.
C4_ExhaustedAfterRetriesPlusOneChecks ==
    (pc = "return" /\ completesAt = 0) =>
        /\ ~ret.some
        /\ checks = retries + 1
        /\ sleeps = retries
        /\ slept <= retries * DefaultInterval

\* C5: a status sequence whose first COMPLETED is at the r-th check,
\* 1 <= r <= retries, ends the poll with the success outcome after at most
\* r-1 sleeps.
C5_CompletedWithinRetries ==
    (pc = "return" /\ completesAt \in 1..retries) =>
        /\ ret.some
        /\ checks = completesAt
        /\ sleeps <= completesAt - 1
        /\ slept <= (completesAt - 1) * DefaultInterval

C5_Witness ==
    /\ pc = "return"
    /\ retries = 2
    /\ completesAt = 2
    /\ ret.some
    /\ sleeps = 1

C7_FailedDistinctFromExhausted ==
    \A i, j \in DOMAIN calls :
        (/\ calls[i].loopCode = "FAILED"
         /\ calls[j].loopCode \in {"PENDING", "RUNNING"}
         /\ j \in Exhaustions)
            => calls[i].outcome # calls[j].outcome

\* C8: a listing failure ends the run, and a run ended by a fatal error has
\* published nothing.
C8_FatalErrorPublishesNothing ==
    error # "none" => /\ pc = "aborted"
                      /\ published = <<>>

C8_Witness ==
    /\ error = "ServiceError"
    /\ pc = "aborted"
    /\ Len(listCalls) = 1
    /\ results_report # <<>>
    /\ published = <<>>

\* C9: a completed run has published exactly once, after every listing,
\* submit and poll; for one page of n groups that all complete on their first
\* poll the body is n lines, the success entries in listing order.
C9_OnePublishOfSuccessLines ==
    /\ pc = "done" => Len(published) = 1
    /\ published # <<>> => /\ pc = "done"
                           /\ Len(listCalls) = Len(listing)
                           /\ Len(calls) = Len(tasks)
    /\ \A m \in DOMAIN published :
        (/\ Len(listing) = 1
         /\ polledOnce
         /\ \A i \in DOMAIN calls :
               calls[i].outcome = Some(ResultLine(calls[i].taskId, "COMPLETED")))
            => SplitLines(published[m]) =
                   [i \in DOMAIN listing[1] |-> <<ResultText(i, "COMPLETED")>>]

\* C10: the published body is the outcome entries joined by single newlines:
\* no empty line, no doubled separator, every entry on a line of its own.
C10_EntriesJoinedBySingleNewlines ==
    \A m \in DOMAIN published : WellJoined(published[m])

\* C11: the destination prefix of every export request is made of the
\* request's group name and the human-readable start of the window and of
\* nothing else (window end, page, retries, other groups' outcomes), so equal
\* names and windows give equal prefixes.
C11_PrefixFromNameAndStart ==
    \A i \in DOMAIN tasks :
        /\ tasks[i].destinationPrefix =
               [lgn |-> tasks[i].logGroupName, time |-> log_start_time_hr]
        /\ \A j \in DOMAIN tasks :
               tasks[i].logGroupName = tasks[j].logGroupName
                   => tasks[i].destinationPrefix = tasks[j].destinationPrefix

C11_Witness ==
    /\ Len(tasks) = 2
    /\ Len(listCalls) = 2
    /\ tasks[1].logGroupName = tasks[2].logGroupName
    /\ logs_from_hours_ago # cloudwatch_staleness_slo
    /\ Len(calls) = 2
    /\ calls[1].outcome.some # calls[2].outcome.some

\* C12: every export request carries a window with fromTime < to, whatever
\* the arguments of get_logs.
C12_WindowStartBeforeEnd ==
    \A i \in DOMAIN tasks : tasks[i].fromTime < tasks[i].to

\* C13: execution is sequential: a task is submitted only when the poll loop
\* of every task submitted before has returned, at most one poll loop is
\* active, and a page is listed only when no group of the current page is
\* being or still to be submitted or polled.
C13_OneTaskAtATime ==
    /\ [](Len(tasks) <= Len(calls) + 1)
    /\ [](pc \in {"poll", "final", "return"} <=> Len(tasks) = Len(calls) + 1)
    /\ [][/\ Len(tasks') > Len(tasks) => Len(calls) = Len(tasks)
          /\ Len(listCalls') > Len(listCalls) =>
                /\ Len(calls) = Len(tasks)
                /\ listCalls # <<>> =>
                      Len(results) = Len(initial_log_group_group_names)]_vars

C13_Witness ==
    /\ pc = "poll"
    /\ Len(tasks) = 2
    /\ Len(calls) = 1
    /\ ~calls[1].outcome.some

\* C14: for every retry limit and status sequence the poll of a task leaves
\* the polling state after at most retries + 2 status checks and ends either
\* completed (a result string) or exhausted (None), never both, and the
\* exhausted end is a return, not an exception.
C14_PollTerminates ==
    /\ (pc = "poll") ~> (pc = "return")
    /\ [](pc = "poll" => checks <= retries + 1)
    /\ [](pc = "return" => /\ error = "none"
                           /\ ret.some <=> loopCode = "COMPLETED"
                           /\ ~ret.some <=> loopCode \in StatusCodes \ {"COMPLETED"})

C14_Witness ==
    /\ pc = "return"
    /\ retries = 2
    /\ ~ret.some
    /\ loopCode = "CANCELLED"
    /\ error = "none"

IsPrefix(a, b) == Len(a) <= Len(b) /\ SubSeq(b, 1, Len(a)) = a

\* the log groups processed so far, in processing order
CallGroups == [i \in DOMAIN calls |-> calls[i].lgn]

\* C15: the report only grows at its end, its group entries are in the order
\* the groups were processed, and that order is the order of discovery.
C15_AppendOnlyInDiscoveryOrder ==
    /\ [][IsPrefix(results_report, results_report')]_vars
    /\ [](IsPrefix(EntryGroups(results_report), CallGroups))
    /\ [](IsPrefix(CallGroups, Flatten(listing)))

\* C16: every success entry maybe_export_log_group returns states the status
\* COMPLETED, whatever the service reports at the query after the loop.
C16_SuccessEntryStatesCompleted ==
    \A i \in DOMAIN calls :
        \A k \in DOMAIN calls[i].outcome.val :
            calls[i].outcome.val[k].kind = "result"
                => calls[i].outcome.val[k].code = "COMPLETED"

\* C17: when a task is submitted, the poll of every task submitted before in
\* the run has seen it COMPLETED; none was left PENDING or RUNNING.
C17_EarlierTasksCompleted ==
    \A i \in DOMAIN calls :
        calls[i].taskId < Len(tasks) => calls[i].loopCode = "COMPLETED"

C19_NoPollingStateAcrossGroups ==
    /\ pc = "poll" => attempts = checks
    /\ (pc = "return" /\ ~ret.some) => checks = retries + 2
    /\ \A i, j \in DOMAIN tasks :
          /\ tasks[i].fromTime = tasks[j].fromTime
          /\ tasks[i].to = tasks[j].to
          /\ tasks[i].destinationPrefix.time = tasks[j].destinationPrefix.time

C19_Witness ==
    /\ pc = "return"
    /\ ~ret.some
    /\ Len(tasks) = 2
    /\ Len(calls) = 1
    /\ ~calls[1].outcome.some

TypeOK ==
    /\ pc \in {"start", "export", "poll", "final", "return", "loop", "done", "aborted"}
    /\ error \in {"none", "ServiceError", "SubmissionError", "TypeError", "DeliveryError"}
    /\ attempts \in 0..(MaxRetries + 1)
    /\ last_token \in 0..MaxPages
====
